---- MODULE Spec2Model ----
(***************************************************************************)
(* A model of sgcustoms_telebot's data path: the TTL cache of cache.py     *)
(* (APICache and the process-wide api_cache), and the LTA client and       *)
(* checkpoint resolver of lta_api.py that sit on top of it.                *)
(*                                                                         *)
(* Python values are modelled as follows.                                  *)
(*   - Optional[X]: None is the empty tuple, a present value x is <<x>>.   *)
(*   - str: a tuple of string parts (an f-string is the tuple of its       *)
(*     literal and interpolated parts).                                    *)
(*   - bytes: a tuple of integers; b"" is the empty tuple.                 *)
(*   - dict: a function whose DOMAIN is the set of keys.                   *)
(*   - datetime: whole seconds since the process started.                  *)
(***************************************************************************)
EXTENDS Integers, Sequences, FiniteSets, TLC

VARIABLES
    cache,          \* APICache.cache: key -> value
    last_updated,   \* APICache.last_updated: key -> time of the last set
    now,            \* datetime.now()
    last,           \* the most recent call: what was called, when, and what it returned
    shadow,         \* per key: the last set(k, v) and what has removed it since;
                    \* under lta_api, when the batch behind the entry was fetched
    pc,             \* per caller: the APICache method it is in and the line it is at
    handler         \* the bot handler last started: where it is, what it has sent,
                    \* when it began and the metadata requests it has issued

vars == <<cache, last_updated, now, last, shadow, pc, handler>>

(***************************************************************************)
(* Bounds of the model.                                                    *)
(***************************************************************************)
MaxTime == 61
MaxCacheTime == 179
MaxStaleTime == 118
MaxRecords == 1
MaxListLen == 3

(***************************************************************************)
(* cache.py                                                                *)
(***************************************************************************)
cache_duration == 60

None == <<>>
Some(v) == <<v>>

\* LET x == v IN F(x), with v evaluated once: a local variable holding a result
Let(v, F(_)) == CHOOSE y \in {F(x) : x \in {v}} : TRUE

EmptyDict == [k \in {} |-> None]

\* The callers that may be inside a method of api_cache at the same time.
Callers == {"a", "b"}

\* a caller that is in no method
Idle == [op |-> "", key |-> "", value |-> "", line |-> 0, raised |-> "none"]
NooneInside == [c \in Callers |-> Idle]

\* no update has been handled yet
NoHandler ==
    [name |-> "", running |-> FALSE, i |-> 0, visited |-> <<>>,
     failed |-> FALSE, sent |-> <<>>, began |-> 0, reqs |-> 0]

\* d[key] = value
dict_set(d, key, value) ==
    [k \in DOMAIN d \cup {key} |-> IF k = key THEN value ELSE d[k]]

\* d.get(key)
dict_get(d, key) == IF key \in DOMAIN d THEN Some(d[key]) ELSE None

\* d.pop(key): raises KeyError when the key is absent
dict_pop_no_default(d, key) ==
    [d |-> [k \in DOMAIN d \ {key} |-> d[k]],
     raised |-> IF key \in DOMAIN d THEN "none" ELSE "KeyError"]

\* d.pop(key, None): removes the key if present, never raises
dict_pop(d, key) ==
    [d |-> [k \in DOMAIN d \ {key} |-> d[k]], raised |-> "none"]

\* The first exception of two statements run in sequence.
FirstRaised(a, b) == IF a # "none" THEN a ELSE b

\* APICache.invalidate
invalidate(self, key) ==
    Let(dict_pop(self.cache, key), LAMBDA c :
    Let(IF c.raised = "none"
        THEN dict_pop(self.last_updated, key)
        ELSE [d |-> self.last_updated, raised |-> "none"], LAMBDA u :
        [self   |-> [cache |-> c.d, last_updated |-> u.d],
         raised |-> FirstRaised(c.raised, u.raised)]))

\* APICache.get with the expiry test written <= instead of <
get_expiry_inclusive(self, key, t) ==
    IF key \in DOMAIN self.cache /\ key \in DOMAIN self.last_updated
    THEN IF t - self.last_updated[key] <= cache_duration
         THEN [ret |-> Some(self.cache[key]), self |-> self, raised |-> "none"]
         ELSE Let(invalidate(self, key), LAMBDA i :
                  [ret |-> None, self |-> i.self, raised |-> i.raised])
    ELSE [ret |-> None, self |-> self, raised |-> "none"]

\* APICache.get that stamps the entry again on a hit
get_touching(self, key, t) ==
    IF key \in DOMAIN self.cache /\ key \in DOMAIN self.last_updated
    THEN IF t - self.last_updated[key] < cache_duration
         THEN [ret |-> Some(self.cache[key]),
               self |-> [self EXCEPT !.last_updated = dict_set(@, key, t)],
               raised |-> "none"]
         ELSE Let(invalidate(self, key), LAMBDA i :
                  [ret |-> None, self |-> i.self, raised |-> i.raised])
    ELSE [ret |-> None, self |-> self, raised |-> "none"]

\* APICache.get without line 21: an expired entry reads as None and stays
get_without_eviction(self, key, t) ==
    IF key \in DOMAIN self.cache /\ key \in DOMAIN self.last_updated
    THEN IF t - self.last_updated[key] < cache_duration
         THEN [ret |-> Some(self.cache[key]), self |-> self, raised |-> "none"]
         ELSE [ret |-> None, self |-> self, raised |-> "none"]
    ELSE [ret |-> None, self |-> self, raised |-> "none"]

\* APICache.get
get(self, key, t) ==
    IF key \in DOMAIN self.cache /\ key \in DOMAIN self.last_updated
    THEN IF t - self.last_updated[key] < cache_duration
         THEN [ret |-> Some(self.cache[key]), self |-> self, raised |-> "none"]
         ELSE Let(invalidate(self, key), LAMBDA i :
                  [ret |-> None, self |-> i.self, raised |-> i.raised])
    ELSE [ret |-> None, self |-> self, raised |-> "none"]

\* APICache.set without line 27: the value is stored, the time is not
set_value_only(self, key, value, t) ==
    [cache        |-> dict_set(self.cache, key, value),
     last_updated |-> self.last_updated]

\* APICache.set that leaves an entry that is there as it is
set_if_absent(self, key, value, t) ==
    IF key \in DOMAIN self.cache THEN self
    ELSE [cache        |-> dict_set(self.cache, key, value),
          last_updated |-> dict_set(self.last_updated, key, t)]

\* APICache.set
set(self, key, value, t) ==
    [cache        |-> dict_set(self.cache, key, value),
     last_updated |-> dict_set(self.last_updated, key, t)]

\* APICache.clear
clear(self) == [cache |-> EmptyDict, last_updated |-> EmptyDict]

\* APICache.get_last_updated
get_last_updated(self, key) == dict_get(self.last_updated, key)

\* The api_cache object as the functions above take it.
api_cache == [cache |-> cache, last_updated |-> last_updated]

(***************************************************************************)
(* config.py                                                               *)
(***************************************************************************)
\* list(config.CHECKPOINTS.keys()): a dict iterates in insertion order
CHECKPOINT_NAMES ==
    << "Second Link at Tuas",
       "Tuas Checkpoint",
       "Woodlands Causeway (Towards Johor)",
       "Woodlands Checkpoint (Towards BKE)" >>

CHECKPOINTS ==
    ("Second Link at Tuas" :> "4703")
    @@ ("Tuas Checkpoint" :> "4713")
    @@ ("Woodlands Causeway (Towards Johor)" :> "2701")
    @@ ("Woodlands Checkpoint (Towards BKE)" :> "2702")

(***************************************************************************)
(* The LTA DataMall endpoint and the image host, as requests sees them.    *)
(* A response is a 2xx answer with a body, a non-2xx answer, or a          *)
(* transport failure.  The cameras the endpoint reports are two of the     *)
(* configured ones and one that no checkpoint names; the first of them can  *)
(* be reported with either of two shots.                                   *)
(***************************************************************************)
UpstreamIds == {"4703", "2701", "1001"}
Shots(id) == IF id = "4703" THEN {"1", "2"} ELSE {"1"}

CameraRecord(id, shot) ==
    [CameraID  |-> id,
     ImageLink |-> <<"http://images/", id, "/", shot, ".jpg">>,
     Timestamp |-> <<"captured at ", shot>>]

Records == UNION {{CameraRecord(id, shot) : shot \in Shots(id)} : id \in UpstreamIds}

RecordLists == UNION {[1..n -> Records] : n \in 0..MaxRecords}

NotRequested == [kind |-> "not_requested", value |-> <<>>]

UpstreamResponses ==
    {[kind |-> "ok", value |-> l] : l \in RecordLists}
    \cup {[kind |-> "connection_error", value |-> <<>>],
          [kind |-> "http_error", value |-> <<>>]}

ImageBodies == {<<>>, <<255, 216>>}

ImageResponses ==
    {[kind |-> "ok", value |-> b] : b \in ImageBodies}
    \cup {[kind |-> "connection_error", value |-> <<>>],
          [kind |-> "http_error", value |-> <<>>]}

\* requests.get(...) followed by raise_for_status(): the exception raised
request_raised(response) ==
    CASE response.kind = "connection_error" -> "ConnectionError"
      [] response.kind = "http_error" -> "HTTPError"
      [] OTHER -> "none"

\* an except clause that names ConnectionError only
ConnectionErrorOnly == {"ConnectionError"}

\* except requests.exceptions.RequestException: the classes it catches
RequestException == {"ConnectionError", "HTTPError", "Timeout"}

(***************************************************************************)
(* lta_api.py                                                              *)
(***************************************************************************)
Raise(self, e) ==
    [ret |-> None, self |-> self, raised |-> e, reqs |-> 0, dls |-> 0,
     fetched |-> None]

\* lines 35-47 without the api_cache.set of line 41
traffic_images_not_stored(self, t, images) ==
    [ret |-> images, self |-> self, raised |-> "none", reqs |-> 1, dls |-> 0,
     fetched |-> None]

\* get_all_traffic_images, lines 35-47: the 2xx answer is stored and returned
traffic_images_received(self, t, images) ==
    [ret |-> images, self |-> set(self, "all_images", images, t),
     raised |-> "none", reqs |-> 1, dls |-> 0, fetched |-> None]

\* lines 48-50 with the empty list stored as if it were an answer
traffic_images_failed_and_stored(self, t) ==
    [ret |-> <<>>, self |-> set(self, "all_images", <<>>, t),
     raised |-> "none", reqs |-> 1, dls |-> 0, fetched |-> None]

\* lines 48-50 with the request made once more before giving up
traffic_images_failed_and_retried(self, t) ==
    [ret |-> <<>>, self |-> self, raised |-> "none", reqs |-> 2, dls |-> 0,
     fetched |-> None]

\* get_all_traffic_images, lines 48-50: a caught failure returns [] and stores nothing
traffic_images_failed(self, t) ==
    [ret |-> <<>>, self |-> self, raised |-> "none", reqs |-> 1, dls |-> 0,
     fetched |-> None]

\* get_all_traffic_images
get_all_traffic_images(self, t, response) ==
    Let(get(self, "all_images", t), LAMBDA cached :
    Let(request_raised(response), LAMBDA e :
        IF cached.raised # "none" THEN Raise(cached.self, cached.raised)
        ELSE IF cached.ret # None
        THEN [ret |-> cached.ret[1], self |-> cached.self, raised |-> "none",
              reqs |-> 0, dls |-> 0, fetched |-> None]
        ELSE IF e = "none"
        THEN traffic_images_received(cached.self, t, response.value)
        ELSE IF e \in RequestException THEN traffic_images_failed(cached.self, t)
        ELSE [Raise(cached.self, e) EXCEPT !.reqs = 1]))

\* lines 79-83: the checkpoint, in CHECKPOINTS order from j on, whose id is camera_id
RECURSIVE match_checkpoint(_, _)
match_checkpoint(camera_id, j) ==
    IF j > Len(CHECKPOINT_NAMES) THEN None
    ELSE IF camera_id = CHECKPOINTS[CHECKPOINT_NAMES[j]]
    THEN Some(CHECKPOINT_NAMES[j])
    ELSE match_checkpoint(camera_id, j + 1)

\* the loop of lines 77-83 stopping one image short
RECURSIVE filter_images_but_last(_, _, _)
filter_images_but_last(all_images, i, checkpoint_images) ==
    IF i >= Len(all_images) THEN checkpoint_images
    ELSE LET m == match_checkpoint(all_images[i].CameraID, 1)
         IN  filter_images_but_last(all_images, i + 1,
                 IF m = None THEN checkpoint_images
                 ELSE dict_set(checkpoint_images, m[1], all_images[i]))

\* lines 77-83: the loop over all_images from i on
RECURSIVE filter_images(_, _, _)
filter_images(all_images, i, checkpoint_images) ==
    IF i > Len(all_images) THEN checkpoint_images
    ELSE LET m == match_checkpoint(all_images[i].CameraID, 1)
         IN  filter_images(all_images, i + 1,
                 IF m = None THEN checkpoint_images
                 ELSE dict_set(checkpoint_images, m[1], all_images[i]))

\* get_checkpoint_images without the api_cache.set of line 86
get_checkpoint_images_not_stored(self, t, response) ==
    Let(get(self, "checkpoint_images", t), LAMBDA cached :
        IF cached.raised # "none" THEN Raise(cached.self, cached.raised)
        ELSE IF cached.ret # None
        THEN [ret |-> cached.ret[1], self |-> cached.self, raised |-> "none",
              reqs |-> 0, dls |-> 0, fetched |-> None]
        ELSE
    Let(get_all_traffic_images(cached.self, t, response), LAMBDA all_images :
        IF all_images.raised # "none" THEN all_images
        ELSE
    Let(filter_images(all_images.ret, 1, EmptyDict), LAMBDA checkpoint_images :
        [ret |-> checkpoint_images, self |-> all_images.self,
         raised |-> "none", reqs |-> all_images.reqs, dls |-> 0,
         fetched |-> Some(all_images.ret)])))

\* get_checkpoint_images
get_checkpoint_images(self, t, response) ==
    Let(get(self, "checkpoint_images", t), LAMBDA cached :
        IF cached.raised # "none" THEN Raise(cached.self, cached.raised)
        ELSE IF cached.ret # None
        THEN [ret |-> cached.ret[1], self |-> cached.self, raised |-> "none",
              reqs |-> 0, dls |-> 0, fetched |-> None]
        ELSE
    Let(get_all_traffic_images(cached.self, t, response), LAMBDA all_images :
        IF all_images.raised # "none" THEN all_images
        ELSE
    Let(filter_images(all_images.ret, 1, EmptyDict), LAMBDA checkpoint_images :
        [ret |-> checkpoint_images,
         self |-> set(all_images.self, "checkpoint_images", checkpoint_images, t),
         raised |-> "none", reqs |-> all_images.reqs, dls |-> 0,
         fetched |-> Some(all_images.ret)])))

\* cache_timestamp.strftime("%Y-%m-%dT%H:%M:%S+08:00")
strftime(t) == <<"T", ToString(t), "+08:00">>

\* line 105: f"Checkpoint '{checkpoint_name}' not found"
not_found_message(checkpoint_name) ==
    <<"Checkpoint '", checkpoint_name, "' not found">>

\* line 113 with the text of line 105
no_image_message_copied(checkpoint_name) == not_found_message(checkpoint_name)

\* line 113: f"No image found for checkpoint '{checkpoint_name}'"
no_image_message(checkpoint_name) ==
    <<"No image found for checkpoint '", checkpoint_name, "'">>

\* line 132: f"Error fetching image: {e}"
fetch_error_message(e) == <<"Error fetching image: ", e>>

\* get_checkpoint_image with the test of line 103 made after line 108: the
\* mapping is fetched before the name is looked at
get_checkpoint_image_fetching_first(self, checkpoint_name, t, response, image_response) ==
    Let(get_checkpoint_images(self, t, response), LAMBDA c :
        IF c.raised # "none" THEN c
        ELSE IF checkpoint_name \notin DOMAIN CHECKPOINTS
        THEN [ret |-> <<None, not_found_message(checkpoint_name)>>,
              self |-> c.self, raised |-> "none", reqs |-> c.reqs, dls |-> 0,
              fetched |-> c.fetched]
        ELSE
    Let(dict_get(c.ret, checkpoint_name), LAMBDA image_data :
        IF image_data = None
        THEN [ret |-> <<None, no_image_message(checkpoint_name)>>,
              self |-> c.self, raised |-> "none", reqs |-> c.reqs, dls |-> 0,
              fetched |-> c.fetched]
        ELSE
    Let(get_last_updated(c.self, "all_images"), LAMBDA cache_timestamp :
    Let(IF cache_timestamp # None
        THEN strftime(cache_timestamp[1])
        ELSE image_data[1].Timestamp, LAMBDA timestamp :
    Let(request_raised(image_response), LAMBDA e :
        IF e = "none"
        THEN [ret |-> <<Some(image_response.value), timestamp>>,
              self |-> c.self, raised |-> "none", reqs |-> c.reqs, dls |-> 1,
              fetched |-> c.fetched]
        ELSE IF e \in RequestException
        THEN [ret |-> <<None, fetch_error_message(e)>>,
              self |-> c.self, raised |-> "none", reqs |-> c.reqs, dls |-> 1,
              fetched |-> c.fetched]
        ELSE [Raise(c.self, e) EXCEPT !.reqs = c.reqs, !.dls = 1])))))

\* get_checkpoint_image; ret is the pair (image_bytes, timestamp or error message)
get_checkpoint_image(self, checkpoint_name, t, response, image_response) ==
    IF checkpoint_name \notin DOMAIN CHECKPOINTS
    THEN [ret |-> <<None, not_found_message(checkpoint_name)>>,
          self |-> self, raised |-> "none", reqs |-> 0, dls |-> 0,
          fetched |-> None]
    ELSE
    Let(get_checkpoint_images(self, t, response), LAMBDA c :
        IF c.raised # "none" THEN c
        ELSE
    Let(dict_get(c.ret, checkpoint_name), LAMBDA image_data :
        \* a record is a dict with keys, so "not image_data" is "image_data is None"
        IF image_data = None
        THEN [ret |-> <<None, no_image_message(checkpoint_name)>>,
              self |-> c.self, raised |-> "none", reqs |-> c.reqs, dls |-> 0,
              fetched |-> c.fetched]
        ELSE
    Let(get_last_updated(c.self, "all_images"), LAMBDA cache_timestamp :
    Let(IF cache_timestamp # None
        THEN strftime(cache_timestamp[1])
        ELSE image_data[1].Timestamp, LAMBDA timestamp :
    Let(request_raised(image_response), LAMBDA e :
        IF e = "none"
        THEN [ret |-> <<Some(image_response.value), timestamp>>,
              self |-> c.self, raised |-> "none", reqs |-> c.reqs, dls |-> 1,
              fetched |-> c.fetched]
        ELSE IF e \in RequestException
        THEN [ret |-> <<None, fetch_error_message(e)>>,
              self |-> c.self, raised |-> "none", reqs |-> c.reqs, dls |-> 1,
              fetched |-> c.fetched]
        ELSE [Raise(c.self, e) EXCEPT !.reqs = c.reqs, !.dls = 1])))))

\* bool(image_bytes) of an Optional[bytes]: None and b"" are both false
bool_bytes(image_bytes) == image_bytes # None /\ Len(image_bytes[1]) > 0

\* get_image_with_metadata; ret is (image_bytes, timestamp or error, location)
get_image_with_metadata(self, checkpoint_name, t, response, image_response) ==
    Let(get_checkpoint_image(self, checkpoint_name, t, response, image_response),
        LAMBDA r :
        IF r.raised # "none" THEN r
        ELSE IF bool_bytes(r.ret[1])
        THEN [r EXCEPT !.ret = <<r.ret[1], r.ret[2], <<checkpoint_name>>>>]
        ELSE [r EXCEPT !.ret = <<None, r.ret[2], <<>>>>])

\* force_refresh dropping the filtered entry only
force_refresh_filtered_only(self) == invalidate(self, "checkpoint_images").self

\* force_refresh
force_refresh(self) == clear(self)

(***************************************************************************)
(* The clock.  Time passes between calls, in steps that put a read just    *)
(* before, exactly at and just after an entry's expiry.                    *)
(***************************************************************************)
TickSteps == {cache_duration - 1, cache_duration}

TickTo(limit) ==
    /\ \E d \in TickSteps :
          /\ now + d <= limit
          /\ now' = now + d
    /\ UNCHANGED <<cache, last_updated, last, shadow, pc, handler>>

Tick == TickTo(MaxTime)

CacheTick == TickTo(MaxCacheTime)

(***************************************************************************)
(* The cache on its own: any caller, any key, any value.                   *)
(***************************************************************************)
Keys == {"all_images", "checkpoint_images"}
Values == {"v1", "v2"}

NeverSet == [st |-> "never", v |-> "", t0 |-> 0]

Removed(e, how) == IF e.st = "never" THEN e ELSE [e EXCEPT !.st = how]

CacheInit ==
    /\ cache = EmptyDict
    /\ last_updated = EmptyDict
    /\ now = 0
    /\ last = [op |-> "init", key |-> "", at |-> 0, ret |-> None, raised |-> "none"]
    /\ shadow = [k \in Keys |-> NeverSet]
    /\ pc = NooneInside
    /\ handler = NoHandler

CacheGet(k) ==
    \E r \in {get(api_cache, k, now)} :
        /\ cache' = r.self.cache
        /\ last_updated' = r.self.last_updated
        /\ last' = [op |-> "get", key |-> k, at |-> now, ret |-> r.ret,
                    raised |-> r.raised]
        /\ UNCHANGED <<now, shadow, pc, handler>>

CacheSet(k, v) ==
    \E s \in {set(api_cache, k, v, now)} :
        /\ cache' = s.cache
        /\ last_updated' = s.last_updated
        /\ last' = [op |-> "set", key |-> k, at |-> now, ret |-> None,
                    raised |-> "none"]
        /\ shadow' = [shadow EXCEPT ![k] = [st |-> "set", v |-> v, t0 |-> now]]
        /\ UNCHANGED <<now, pc, handler>>

CacheInvalidate(k) ==
    \E i \in {invalidate(api_cache, k)} :
        /\ cache' = i.self.cache
        /\ last_updated' = i.self.last_updated
        /\ last' = [op |-> "invalidate", key |-> k, at |-> now, ret |-> None,
                    raised |-> i.raised]
        /\ shadow' = [shadow EXCEPT ![k] = Removed(@, "invalidated")]
        /\ UNCHANGED <<now, pc, handler>>

CacheClear ==
    \E s \in {clear(api_cache)} :
        /\ cache' = s.cache
        /\ last_updated' = s.last_updated
        /\ last' = [op |-> "clear", key |-> "", at |-> now, ret |-> None,
                    raised |-> "none"]
        /\ shadow' = [k \in Keys |-> Removed(shadow[k], "cleared")]
        /\ UNCHANGED <<now, pc, handler>>

CacheGetLastUpdated(k) ==
    /\ last' = [op |-> "get_last_updated", key |-> k, at |-> now,
                ret |-> get_last_updated(api_cache, k), raised |-> "none"]
    /\ UNCHANGED <<cache, last_updated, now, shadow, pc, handler>>

CacheNext ==
    \/ \E k \in Keys : CacheGet(k)
    \/ \E k \in Keys, v \in Values : CacheSet(k, v)
    \/ \E k \in Keys : CacheInvalidate(k)
    \/ CacheClear
    \/ \E k \in Keys : CacheGetLastUpdated(k)
    \/ CacheTick

CacheSpec == CacheInit /\ [][CacheNext]_vars

(***************************************************************************)
(* The bot's calls into lta_api, one after the other.  Each call runs to   *)
(* its end at one reading of the clock; the endpoint and the image host    *)
(* answer each request as they please.                                     *)
(***************************************************************************)
\* the names the bot asks for: two checkpoints whose cameras the endpoint can
\* report, one whose camera it never reports, and one that is not configured
ResolveNames ==
    {"Second Link at Tuas", "Woodlands Causeway (Towards Johor)",
     "Tuas Checkpoint", "NotARealCheckpoint"}

Init ==
    /\ cache = EmptyDict
    /\ last_updated = EmptyDict
    /\ now = 0
    /\ last = [op |-> "init", arg |-> "", at |-> 0, ret |-> None,
               raised |-> "none", reqs |-> 0, dls |-> 0, up |-> NotRequested,
               img |-> NotRequested, fetched |-> None, pre |-> EmptyDict]
    /\ shadow = [k \in Keys |-> NeverSet]
    /\ pc = NooneInside
    /\ handler = NoHandler

\* the answers a call can meet: none is drawn for a request it does not make
UpstreamFor(probe) == IF probe.reqs = 0 THEN {NotRequested} ELSE UpstreamResponses
ImageFor(probe) == IF probe.dls = 0 THEN {NotRequested} ELSE ImageResponses

\* For each key, the request whose answer is behind the entry the call leaves
\* there: t0 is the time of that request, st is "set" when it was answered with
\* a list, "failed" when it was not (the filtered mapping is then built from the
\* [] of line 50), "never" when there is no entry since the last clear.
batch_behind(op, r, response) ==
    LET base == IF op \in {"force_refresh", "force_refresh_checkpoint"}
                THEN [k \in Keys |-> NeverSet]
                ELSE shadow
        raw == IF r.reqs = 1 /\ response.kind = "ok"
               THEN [st |-> "set", v |-> "", t0 |-> now]
               ELSE base["all_images"]
        filtered == IF r.fetched = None THEN base["checkpoint_images"]
                    ELSE IF r.reqs = 1 /\ response.kind # "ok"
                    THEN [st |-> "failed", v |-> "", t0 |-> now]
                    ELSE raw
    IN  [k \in Keys |-> IF k = "all_images" THEN raw ELSE filtered]

Call(op, arg, r, response, image_response) ==
    /\ cache' = r.self.cache
    /\ last_updated' = r.self.last_updated
    /\ last' = [op |-> op, arg |-> arg, at |-> now, ret |-> r.ret,
                raised |-> r.raised, reqs |-> r.reqs, dls |-> r.dls,
                up |-> response, img |-> image_response,
                fetched |-> r.fetched, pre |-> last_updated]
    /\ shadow' = batch_behind(op, r, response)
    /\ UNCHANGED now

\* bot.py check_api_access: lta_api.get_all_traffic_images()
GetAllTrafficImages ==
    \E up \in UpstreamFor(get_all_traffic_images(api_cache, now, NotRequested)) :
        \E r \in {get_all_traffic_images(api_cache, now, up)} :
            /\ Call("get_all_traffic_images", "", r, up, NotRequested)
            /\ UNCHANGED <<pc, handler>>

\* lta_api.get_checkpoint_images()
GetCheckpointImages ==
    \E up \in UpstreamFor(get_checkpoint_images(api_cache, now, NotRequested)) :
        \E r \in {get_checkpoint_images(api_cache, now, up)} :
            /\ Call("get_checkpoint_images", "", r, up, NotRequested)
            /\ UNCHANGED <<pc, handler>>

\* get_image_with_metadata on the cache self, with the answers it meets
Resolve(op, self, name) ==
    \E up \in UpstreamFor(get_image_with_metadata(self, name, now,
                                                  NotRequested, NotRequested)) :
        \E img \in ImageFor(get_image_with_metadata(self, name, now,
                                                    up, NotRequested)) :
            \E r \in {get_image_with_metadata(self, name, now, up, img)} :
                Call(op, name, r, up, img)

\* bot.py checkpoint_detail, refresh_checkpoint: lta_api.get_image_with_metadata(name)
GetImageWithMetadata ==
    \E name \in ResolveNames, self \in {api_cache} :
        /\ Resolve("get_image_with_metadata", self, name)
        /\ UNCHANGED <<pc, handler>>

\* lta_api.force_refresh()
ForceRefresh ==
    \E r \in {Raise(force_refresh(api_cache), "none")} :
        /\ Call("force_refresh", "", r, NotRequested, NotRequested)
        /\ UNCHANGED <<pc, handler>>

\* bot.py force_refresh_checkpoint: force_refresh(), then get_image_with_metadata(name)
ForceRefreshCheckpoint ==
    \E name \in ResolveNames, self \in {force_refresh(api_cache)} :
        /\ Resolve("force_refresh_checkpoint", self, name)
        /\ UNCHANGED <<pc, handler>>

Next ==
    \/ GetAllTrafficImages
    \/ GetCheckpointImages
    \/ GetImageWithMetadata
    \/ ForceRefresh
    \/ ForceRefreshCheckpoint
    \/ Tick

Spec == Init /\ [][Next]_vars

(***************************************************************************)
(* The same calls over two TTL windows, so that an entry filtered late in  *)
(* the window of one batch is still there when the next batch is fetched.  *)
(***************************************************************************)
StaleTick == TickTo(MaxStaleTime)

StaleNext ==
    \/ GetAllTrafficImages
    \/ GetCheckpointImages
    \/ GetImageWithMetadata
    \/ StaleTick

StaleSpec == Init /\ [][StaleNext]_vars

(***************************************************************************)
(* get_checkpoint_images as a function of the endpoint's answer: one call  *)
(* on an empty cache, for every answer of up to MaxListLen records.        *)
(***************************************************************************)
FilterResponses ==
    {[kind |-> "ok", value |-> l] :
        l \in UNION {[1..n -> Records] : n \in 0..MaxListLen}}
    \cup {[kind |-> "connection_error", value |-> <<>>],
          [kind |-> "http_error", value |-> <<>>]}

FilterInit ==
    /\ cache = EmptyDict
    /\ last_updated = EmptyDict
    /\ now = 0
    /\ \E up \in FilterResponses :
          last = [op |-> "init", arg |-> "", at |-> 0, ret |-> None,
                  raised |-> "none", reqs |-> 0, dls |-> 0, up |-> up,
                  img |-> NotRequested, fetched |-> None, pre |-> EmptyDict]
    /\ shadow = [k \in Keys |-> NeverSet]
    /\ pc = NooneInside
    /\ handler = NoHandler

FilterCall ==
    /\ last.op = "init"
    /\ \E r \in {get_checkpoint_images(api_cache, now, last.up)} :
          /\ Call("get_checkpoint_images", "", r, last.up, NotRequested)
          /\ UNCHANGED <<pc, handler>>

FilterSpec == FilterInit /\ [][FilterCall]_vars

(***************************************************************************)
(* Several callers inside the methods of one APICache at the same time.    *)
(* The class takes no lock, so another caller can run between any two      *)
(* statements of a method; one statement's access to one dict is atomic.   *)
(* pc[c].line is the line of cache.py the caller c executes next, 0 when   *)
(* it is in no method; pc[c].raised is how its last call ended.            *)
(***************************************************************************)
\* the first statement of each method
FirstLine ==
    ("get" :> 15) @@ ("set" :> 26) @@ ("invalidate" :> 32) @@ ("clear" :> 38)

ThreadInit == CacheInit

\* caller c calls a method of api_cache
Enter(c) ==
    /\ pc[c].line = 0
    /\ \E op \in DOMAIN FirstLine, k \in Keys, v \in Values :
          pc' = [pc EXCEPT ![c] = [op |-> op, key |-> k, value |-> v,
                                   line |-> FirstLine[op], raised |-> "none"]]
    /\ UNCHANGED <<cache, last_updated, now, last, shadow, handler>>

GoTo(c, line) == pc' = [pc EXCEPT ![c].line = line]
Return(c) == GoTo(c, 0)
RaiseAt(c, e) == pc' = [pc EXCEPT ![c].line = 0, ![c].raised = e]

\* cache.py:15  if key in self.cache and key in self.last_updated:
Line15(c) ==
    /\ pc[c].line = 15
    /\ IF pc[c].key \in DOMAIN cache /\ pc[c].key \in DOMAIN last_updated
       THEN GoTo(c, 16)
       ELSE Return(c)
    /\ UNCHANGED <<cache, last_updated, now, last, shadow, handler>>

\* cache.py:16  if datetime.now() - self.last_updated[key] < self.cache_duration:
Line16(c) ==
    /\ pc[c].line = 16
    /\ IF pc[c].key \notin DOMAIN last_updated THEN RaiseAt(c, "KeyError")
       ELSE IF now - last_updated[pc[c].key] < cache_duration THEN GoTo(c, 18)
       ELSE GoTo(c, 32)
    /\ UNCHANGED <<cache, last_updated, now, last, shadow, handler>>

\* cache.py:18  return self.cache[key]
Line18(c) ==
    /\ pc[c].line = 18
    /\ IF pc[c].key \notin DOMAIN cache THEN RaiseAt(c, "KeyError") ELSE Return(c)
    /\ UNCHANGED <<cache, last_updated, now, last, shadow, handler>>

\* cache.py:26  self.cache[key] = value
Line26(c) ==
    /\ pc[c].line = 26
    /\ cache' = dict_set(cache, pc[c].key, pc[c].value)
    /\ GoTo(c, 27)
    /\ UNCHANGED <<last_updated, now, last, shadow, handler>>

\* cache.py:27  self.last_updated[key] = datetime.now()
Line27(c) ==
    /\ pc[c].line = 27
    /\ last_updated' = dict_set(last_updated, pc[c].key, now)
    /\ Return(c)
    /\ UNCHANGED <<cache, now, last, shadow, handler>>

\* cache.py:32  self.cache.pop(key, None)   (invalidate, also called at line 21)
Line32(c) ==
    /\ pc[c].line = 32
    /\ \E r \in {dict_pop(cache, pc[c].key)} :
          /\ cache' = r.d
          /\ IF r.raised = "none" THEN GoTo(c, 33) ELSE RaiseAt(c, r.raised)
    /\ UNCHANGED <<last_updated, now, last, shadow, handler>>

\* cache.py:33  self.last_updated.pop(key, None)
Line33(c) ==
    /\ pc[c].line = 33
    /\ \E r \in {dict_pop(last_updated, pc[c].key)} :
          /\ last_updated' = r.d
          /\ IF r.raised = "none" THEN Return(c) ELSE RaiseAt(c, r.raised)
    /\ UNCHANGED <<cache, now, last, shadow, handler>>

\* cache.py:38  self.cache.clear()
Line38(c) ==
    /\ pc[c].line = 38
    /\ cache' = EmptyDict
    /\ GoTo(c, 39)
    /\ UNCHANGED <<last_updated, now, last, shadow, handler>>

\* cache.py:39  self.last_updated.clear()
Line39(c) ==
    /\ pc[c].line = 39
    /\ last_updated' = EmptyDict
    /\ Return(c)
    /\ UNCHANGED <<cache, now, last, shadow, handler>>

ThreadNext ==
    \/ \E c \in Callers : Enter(c)
    \/ \E c \in Callers : Line15(c)
    \/ \E c \in Callers : Line16(c)
    \/ \E c \in Callers : Line18(c)
    \/ \E c \in Callers : Line26(c)
    \/ \E c \in Callers : Line27(c)
    \/ \E c \in Callers : Line32(c)
    \/ \E c \in Callers : Line33(c)
    \/ \E c \in Callers : Line38(c)
    \/ \E c \in Callers : Line39(c)
    \/ Tick

ThreadSpec == ThreadInit /\ [][ThreadNext]_vars

(***************************************************************************)
(* The handlers of bot.py and what they send to the chat.  A button is its *)
(* callback_data, a keyboard is a sequence of rows of buttons, and a       *)
(* message is the Telegram call that shows it, what it is about and its    *)
(* reply_markup (no rows when it has none).  Telegram accepts every call.  *)
(* main() leaves concurrent_updates unset, so the Application handles one  *)
(* update to its end before the next; time passes at the awaits.           *)
(***************************************************************************)
\* utils.create_checkpoint_keyboard, lines 17-28: list(config.CHECKPOINTS.keys())[i:i+2]
checkpoint_row(i) ==
    [j \in 1..(IF i + 1 <= Len(CHECKPOINT_NAMES) THEN 2 ELSE 1) |->
        <<"checkpoint:", CHECKPOINT_NAMES[i + j - 1]>>]

\* a keyboard without a single row
create_no_keyboard == <<>>

\* utils.create_checkpoint_keyboard
create_checkpoint_keyboard ==
    [r \in 1..((Len(CHECKPOINT_NAMES) + 1) \div 2) |-> checkpoint_row(2 * r - 1)]
    \o << << <<"refresh_all">>, <<"force_refresh">> >> >>

\* utils.create_checkpoint_detail_keyboard
create_checkpoint_detail_keyboard(checkpoint_name) ==
    << << <<"refresh:", checkpoint_name>>, <<"force_refresh:", checkpoint_name>> >>,
       << <<"location:", checkpoint_name>>, <<"show_checkpoints">> >> >>

Message(via, text, about, reply_markup) ==
    [via |-> via, text |-> text, about |-> about, reply_markup |-> reply_markup]

\* "if image_bytes:" on the first component of what get_image_with_metadata returned
got_image(call) == call.raised = "none" /\ bool_bytes(call.ret[1])

\* handle_callback_query, lines 589-601: what the user sees when a handler raised
something_went_wrong ==
    Message("edit_message_text", "Something went wrong", "",
            << << <<"show_checkpoints">> >> >>)

\* a handler that makes one call and sends one message
OneShot(name, about, call, on_success, on_failure) ==
    [name |-> name, running |-> FALSE, i |-> 0, visited |-> <<about>>,
     failed |-> ~got_image(call),
     sent |-> << IF call.raised # "none" THEN something_went_wrong
                 ELSE IF got_image(call) THEN on_success ELSE on_failure >>,
     began |-> call.at, reqs |-> call.reqs]

\* bot.py checkpoint_detail
checkpoint_detail ==
    /\ ~handler.running
    /\ \E name \in ResolveNames, self \in {api_cache} :
          /\ Resolve("checkpoint_detail", self, name)
          /\ handler' = OneShot("checkpoint_detail", name, last',
                 Message("reply_photo", "image", name,
                         create_checkpoint_detail_keyboard(name)),
                 Message("edit_message_text", "Error", name,
                         << << <<"show_checkpoints">> >> >>))
    /\ UNCHANGED pc

\* bot.py refresh_checkpoint
refresh_checkpoint ==
    /\ ~handler.running
    /\ \E name \in ResolveNames, self \in {api_cache} :
          /\ Resolve("refresh_checkpoint", self, name)
          /\ handler' = OneShot("refresh_checkpoint", name, last',
                 Message("edit_media", "image", name,
                         create_checkpoint_detail_keyboard(name)),
                 Message("reply_text", "Error refreshing image", name,
                         << << <<"refresh:", name>> >> >>))
    /\ UNCHANGED pc

\* bot.py force_refresh_checkpoint
force_refresh_checkpoint ==
    /\ ~handler.running
    /\ \E name \in ResolveNames, self \in {force_refresh(api_cache)} :
          /\ Resolve("force_refresh_checkpoint", self, name)
          /\ handler' = OneShot("force_refresh_checkpoint", name, last',
                 Message("edit_media", "image", name,
                         create_checkpoint_detail_keyboard(name)),
                 Message("reply_text", "Error refreshing image", name,
                         << << <<"force_refresh:", name>> >> >>))
    /\ UNCHANGED pc

\* the loop of refresh_all_checkpoints / force_refresh_all stopping at a failure
loop_break_on_failure(i, ok) == IF ok THEN i + 1 ELSE Len(CHECKPOINT_NAMES) + 1

\* for checkpoint_name in config.CHECKPOINTS.keys(): the index after i
loop_next(i, ok) == i + 1

\* bot.py refresh_all_checkpoints, lines 381-390: up to the loop
refresh_all_checkpoints ==
    /\ ~handler.running
    /\ handler' = [name |-> "refresh_all_checkpoints", running |-> TRUE, i |-> 1,
                   visited |-> <<>>, failed |-> FALSE,
                   sent |-> <<Message("edit_message_text", "Loading", "", <<>>)>>,
                   began |-> now, reqs |-> 0]
    /\ UNCHANGED <<cache, last_updated, now, last, shadow, pc>>

\* bot.py force_refresh_all, lines 513-525: up to the loop
force_refresh_all ==
    /\ ~handler.running
    /\ \E r \in {Raise(force_refresh(api_cache), "none")} :
          Call("force_refresh", "", r, NotRequested, NotRequested)
    /\ handler' = [name |-> "force_refresh_all", running |-> TRUE, i |-> 1,
                   visited |-> <<>>, failed |-> FALSE,
                   sent |-> <<Message("edit_message_text", "Force refreshing", "", <<>>)>>,
                   began |-> now, reqs |-> 0]
    /\ UNCHANGED pc

\* one turn of the loop, lines 393-413 / 528-548
batch_iteration ==
    /\ handler.running
    /\ handler.i \in 1..Len(CHECKPOINT_NAMES)
    /\ \E name \in {CHECKPOINT_NAMES[handler.i]}, self \in {api_cache} :
          /\ Resolve(handler.name, self, name)
          /\ handler' =
               IF last'.raised # "none"
               THEN [handler EXCEPT !.running = FALSE, !.failed = TRUE,
                                    !.reqs = @ + last'.reqs,
                                    !.visited = Append(@, name),
                                    !.sent = Append(@, something_went_wrong)]
               ELSE [handler EXCEPT
                       !.i = loop_next(@, got_image(last')),
                       !.reqs = @ + last'.reqs,
                       !.visited = Append(@, name),
                       !.failed = @ \/ ~got_image(last'),
                       !.sent = Append(@,
                           IF got_image(last')
                           THEN Message("reply_photo", "image", name, <<>>)
                           ELSE Message("reply_text", "Could not load image", name, <<>>))]
    /\ UNCHANGED pc

\* after the loop, lines 415-420 / 550-555: the checkpoint keyboard again
batch_end ==
    /\ handler.running
    /\ handler.i > Len(CHECKPOINT_NAMES)
    /\ handler' = [handler EXCEPT
                     !.running = FALSE,
                     !.sent = Append(@, Message("reply_text", "Here are all", "",
                                                create_checkpoint_keyboard))]
    /\ UNCHANGED <<cache, last_updated, now, last, shadow, pc>>

\* lta_api calls of status_command, lines 188 and 196
status_calls(self, t, response) ==
    Let(get_all_traffic_images(self, t, response), LAMBDA images :
        IF images.raised # "none" \/ Len(images.ret) = 0 THEN images
        ELSE
    Let(get_checkpoint_images(images.self, t, NotRequested), LAMBDA found :
        [found EXCEPT !.reqs = images.reqs,
                      !.ret = IF found.raised = "none"
                              THEN <<images.ret, found.ret>> ELSE None]))

\* bot.py status_command
status_command ==
    /\ ~handler.running
    /\ \E up \in UpstreamFor(status_calls(api_cache, now, NotRequested)) :
          \E r \in {status_calls(api_cache, now, up)} :
              /\ Call("status_command", "", r, up, NotRequested)
              /\ handler' =
                   [name |-> "status_command", running |-> FALSE, i |-> 0,
                    visited |-> <<>>,
                    failed |-> r.raised # "none" \/ Len(r.ret) = 0,
                    sent |-> << Message("reply_text", "Checking connection", "", <<>>),
                                IF r.raised # "none"
                                THEN Message("edit_text", "Error connecting", "",
                                             << << <<"status">>, <<"help">> >> >>)
                                ELSE IF Len(r.ret) = 0
                                THEN Message("edit_text", "Connection issue", "",
                                             << << <<"status">>, <<"help">> >> >>)
                                ELSE Message("edit_text", "Connection successful", "",
                                             << << <<"show_checkpoints">>, <<"help">> >> >>) >>,
                    began |-> now, reqs |-> r.reqs]
    /\ UNCHANGED pc

BotTick == Tick

BotNext ==
    \/ checkpoint_detail
    \/ refresh_checkpoint
    \/ force_refresh_checkpoint
    \/ refresh_all_checkpoints
    \/ force_refresh_all
    \/ batch_iteration
    \/ batch_end
    \/ status_command
    \/ BotTick

BotSpec == Init /\ [][BotNext]_vars

(***************************************************************************)
(* Batches with the clock running inside them.  All but the last second   *)
(* of a TTL window may pass at any time; from then on the clock moves by   *)
(* the second between the turns of a batch's loop, so that an entry can    *)
(* expire while the batch is under way.                                    *)
(***************************************************************************)
MaxBatchTime == 61

\* a second passes inside a batch, around the end of a TTL window
BatchSecond ==
    /\ handler.running
    /\ now + 1 >= cache_duration
    /\ now + 1 <= MaxBatchTime
    /\ now' = now + 1
    /\ UNCHANGED <<cache, last_updated, last, shadow, pc, handler>>

\* all but the last second of a TTL window passes
BatchTick ==
    /\ now + cache_duration - 1 <= MaxBatchTime
    /\ now' = now + cache_duration - 1
    /\ UNCHANGED <<cache, last_updated, last, shadow, pc, handler>>

BatchNext ==
    \/ checkpoint_detail
    \/ refresh_all_checkpoints
    \/ force_refresh_all
    \/ batch_iteration
    \/ batch_end
    \/ BatchSecond
    \/ BatchTick

BatchSpec == Init /\ [][BatchNext]_vars

(***************************************************************************)
(* A call of lta_api with its waits.  requests.get is called without a     *)
(* timeout argument (lta_api.py:33 and :127), so it returns when the       *)
(* server's answer or a transport error arrives and not before.  Caller    *)
(* "a" is at line 33 or 127 while it waits, at 34 or 128 once the answer   *)
(* is there, and at 0 when the call has returned.  Whether and when an     *)
(* answer arrives is up to the server; going on after it has arrived is    *)
(* the program's own step.                                                 *)
(***************************************************************************)
WaitOps == {"get_all_traffic_images", "get_image_with_metadata"}

\* the call op(arg) at time t, given the answers to the requests it makes
lta_call(op, self, arg, t, response, image_response) ==
    IF op = "get_all_traffic_images"
    THEN get_all_traffic_images(self, t, response)
    ELSE get_image_with_metadata(self, arg, t, response, image_response)

At(line) == pc["a"].line = line
Waiting(op, arg, line) ==
    pc' = [pc EXCEPT !["a"] = [op |-> op, key |-> arg, value |-> "",
                               line |-> line, raised |-> "none"]]

\* the call starts: it returns at once when it needs no request, otherwise it
\* sends the first request it needs and waits
WaitCall ==
    /\ At(0)
    /\ \E op \in WaitOps, arg \in ResolveNames :
         \E probe \in {lta_call(op, api_cache, arg, now, NotRequested, NotRequested)} :
            IF probe.reqs = 0 /\ probe.dls = 0
            THEN /\ Call(op, arg, probe, NotRequested, NotRequested)
                 /\ UNCHANGED pc
            ELSE /\ Waiting(op, arg, IF probe.reqs = 1 THEN 33 ELSE 127)
                 /\ last' = [last EXCEPT !.up = NotRequested, !.img = NotRequested]
                 /\ UNCHANGED <<cache, last_updated, now, shadow>>
    /\ UNCHANGED handler

\* lta_api.force_refresh()
WaitForceRefresh ==
    /\ At(0)
    /\ \E r \in {Raise(force_refresh(api_cache), "none")} :
          Call("force_refresh", "", r, NotRequested, NotRequested)
    /\ UNCHANGED <<pc, handler>>

\* the endpoint's answer to the request of line 33 arrives
MetadataAnswer ==
    /\ At(33)
    /\ \E up \in UpstreamResponses : last' = [last EXCEPT !.up = up]
    /\ pc' = [pc EXCEPT !["a"].line = 34]
    /\ UNCHANGED <<cache, last_updated, now, shadow, handler>>

\* lines 34-50 and on: the call goes on with the answer, to its end or to the
\* image request of line 127
AfterMetadata ==
    /\ At(34)
    /\ \E r \in {lta_call(pc["a"].op, api_cache, pc["a"].key, now,
                          last.up, NotRequested)} :
          IF r.dls = 0
          THEN /\ Call(pc["a"].op, pc["a"].key, r, last.up, NotRequested)
               /\ pc' = [pc EXCEPT !["a"].line = 0, !["a"].raised = r.raised]
          ELSE /\ pc' = [pc EXCEPT !["a"].line = 127]
               /\ UNCHANGED <<cache, last_updated, now, last, shadow>>
    /\ UNCHANGED handler

\* the image host's answer to the request of line 127 arrives
ImageAnswer ==
    /\ At(127)
    /\ \E img \in ImageResponses : last' = [last EXCEPT !.img = img]
    /\ pc' = [pc EXCEPT !["a"].line = 128]
    /\ UNCHANGED <<cache, last_updated, now, shadow, handler>>

\* lines 128-132 and the caller's lines 146-151: the call returns
AfterImage ==
    /\ At(128)
    /\ \E r \in {lta_call(pc["a"].op, api_cache, pc["a"].key, now,
                          last.up, last.img)} :
          /\ Call(pc["a"].op, pc["a"].key, r, last.up, last.img)
          /\ pc' = [pc EXCEPT !["a"].line = 0, !["a"].raised = r.raised]
    /\ UNCHANGED handler

\* time passes between calls
WaitTick == At(0) /\ Tick

WaitNext ==
    \/ WaitCall
    \/ WaitForceRefresh
    \/ MetadataAnswer
    \/ AfterMetadata
    \/ ImageAnswer
    \/ AfterImage
    \/ WaitTick

\* the interpreter runs the program's own steps; nothing obliges a server to answer
WaitSpec ==
    Init /\ [][WaitNext]_vars /\ WF_vars(AfterMetadata) /\ WF_vars(AfterImage)

(***************************************************************************)
(* C1: TTL correctness of APICache.  After set(k, v) at time t0, with no   *)
(* later set, invalidate or clear on k, get(k) at time t returns v when    *)
(* t - t0 < ttl and returns None when t - t0 >= ttl.                       *)
(***************************************************************************)
C1_TTLCorrectness ==
    (last.op = "get" /\ shadow[last.key].st = "set") =>
        /\ last.at - shadow[last.key].t0 < cache_duration
              => last.ret = Some(shadow[last.key].v)
        /\ last.at - shadow[last.key].t0 >= cache_duration
              => last.ret = None

\* a get exactly ttl seconds after the set, which finds the entry expired
C1_Witness ==
    /\ last.op = "get"
    /\ shadow[last.key].st = "set"
    /\ last.at - shadow[last.key].t0 = cache_duration
    /\ last.ret = None

\* C2, of states: a removed key reads as None, and invalidate raises nothing
C2_AbsentAfterRemoval ==
    /\ (last.op = "get" /\ shadow[last.key].st \in {"invalidated", "cleared"})
          => last.ret = None
    /\ last.op = "invalidate" => last.raised = "none"

\* C2, of steps: invalidate(k) touches no key but k
C2_InvalidateFrame ==
    (last'.op = "invalidate" /\ last' # last) =>
        \A j \in Keys \ {last'.key} :
            /\ dict_get(cache', j) = dict_get(cache, j)
            /\ dict_get(last_updated', j) = dict_get(last_updated, j)

(***************************************************************************)
(* C2: invalidation.  Once invalidate(k) or clear() has removed k and no   *)
(* set(k, _) followed, get(k) returns None whatever the age of the removed *)
(* entry; invalidate raises nothing, also on an absent key, and leaves the *)
(* value and the timestamp of every other key as they were.                *)
(***************************************************************************)
C2_Invalidation == [](C2_AbsentAfterRemoval) /\ [][C2_InvalidateFrame]_vars

\* a get of a key whose entry was invalidated while it was still fresh
C2_Witness ==
    /\ last.op = "get"
    /\ shadow[last.key].st = "invalidated"
    /\ last.at - shadow[last.key].t0 < cache_duration
    /\ last.ret = None
    /\ \E j \in Keys \ {last.key} : j \in DOMAIN cache

(***************************************************************************)
(* What the claims about lta_api speak of.                                 *)
(***************************************************************************)
Configured(name) == name \in DOMAIN CHECKPOINTS

ResolveOps == {"get_image_with_metadata", "force_refresh_checkpoint"}

FailureKinds == {"connection_error", "http_error"}

\* what a request for the camera list yields: the answer's list, or [] on a failure
FromResponse(response) == IF response.kind = "ok" THEN response.value ELSE <<>>

CameraIds(images) == {images[i].CameraID : i \in 1..Len(images)}

\* the three errors of the resolver, as get_image_with_metadata returns them
UnknownCheckpoint(name) == <<None, <<"Checkpoint '", name, "' not found">>, <<>>>>
NoImageAvailable(name) ==
    <<None, <<"No image found for checkpoint '", name, "'">>, <<>>>>
ImageDownloadFailed(e) == <<None, <<"Error fetching image: ", e>>, <<>>>>

UnknownCheckpointResults == {UnknownCheckpoint(n) : n \in ResolveNames}
NoImageAvailableResults == {NoImageAvailable(n) : n \in ResolveNames}
ImageDownloadFailedResults == {ImageDownloadFailed(e) : e \in RequestException}

\* C3, of steps: the fetch that follows force_refresh()
C3_AfterForceRefresh ==
    (last.op = "force_refresh"
        /\ last'.op \in {"get_all_traffic_images", "get_checkpoint_images"}) =>
        /\ last'.reqs = 1
        /\ last'.op = "get_all_traffic_images"
              => last'.ret = FromResponse(last'.up)
        /\ last'.op = "get_checkpoint_images"
              => last'.fetched = Some(FromResponse(last'.up))

\* C3, of states: the fetch inside force_refresh_checkpoint
C3_HandlerFetches ==
    (last.op = "force_refresh_checkpoint" /\ Configured(last.arg)) =>
        /\ last.reqs = 1
        /\ last.fetched = Some(FromResponse(last.up))

(***************************************************************************)
(* C3: force_refresh.  The call of get_all_traffic_images or               *)
(* get_checkpoint_images that follows force_refresh() issues a request to  *)
(* the endpoint, and what it returns is made from the answer to that       *)
(* request, not from anything cached before; the same holds of the fetch   *)
(* force_refresh_checkpoint makes after its force_refresh().               *)
(***************************************************************************)
C3_ForceRefresh == [](C3_HandlerFetches) /\ [][C3_AfterForceRefresh]_vars

\* a forced refresh of a checkpoint while both entries were stored this very second
C3_Witness ==
    /\ last.op = "force_refresh_checkpoint"
    /\ Configured(last.arg)
    /\ DOMAIN last.pre = Keys
    /\ \A k \in Keys : last.pre[k] = last.at
    /\ last.reqs = 1
    /\ last.up.kind = "ok"

\* C4, of steps: the requests of a first, a second and a forced call
C4_SecondCall ==
    /\ (last'.op = "get_all_traffic_images"
           /\ "all_images" \notin DOMAIN last'.pre)
          => last'.reqs = 1
    \* a step that is a second call, and not the clock's: the clock leaves last as it is
    /\ (last.op = "get_all_traffic_images" /\ last.reqs = 1 /\ last.up.kind = "ok"
           /\ last'.op = "get_all_traffic_images"
           /\ <<last'.at, last'.reqs>> # <<last.at, last.reqs>>
           /\ last'.at - last.at < cache_duration)
          => last'.reqs = 0 /\ last'.ret = last.ret
    /\ (last.op = "force_refresh" /\ last'.op = "get_all_traffic_images")
          => last'.reqs = 1

(***************************************************************************)
(* C4: cache sharing.  A call of get_all_traffic_images that finds no      *)
(* entry issues one request; when the endpoint answered it, a second call  *)
(* less than ttl later issues none; a call that follows force_refresh()    *)
(* issues one again.                                                       *)
(***************************************************************************)
C4_CacheSharing == [][C4_SecondCall]_vars

\* a call served from an entry that an earlier call stored, later in the same window
C4_Witness ==
    /\ last.op = "get_all_traffic_images"
    /\ last.reqs = 0
    /\ "all_images" \in DOMAIN last.pre
    /\ last.pre["all_images"] < last.at
    /\ last.at - last.pre["all_images"] < cache_duration
    /\ Len(last.ret) > 0

(***************************************************************************)
(* C5: resolver errors.  A name that is not configured yields              *)
(* UnknownCheckpoint; a configured name whose camera is not in the         *)
(* endpoint's answer yields NoImageAvailable; a configured, matched name   *)
(* whose image download fails yields ImageDownloadFailed; no result is of  *)
(* two of these kinds, and none of them is a success.                      *)
(***************************************************************************)
C5_ErrorDiscrimination ==
    /\ last.op \in ResolveOps =>
          /\ ~Configured(last.arg) => last.ret = UnknownCheckpoint(last.arg)
          /\ (Configured(last.arg) /\ last.reqs = 1 /\ last.up.kind = "ok"
                 /\ CHECKPOINTS[last.arg] \notin CameraIds(last.up.value))
                => last.ret = NoImageAvailable(last.arg)
          /\ (Configured(last.arg) /\ last.img.kind \in FailureKinds)
                => /\ last.ret = ImageDownloadFailed(request_raised(last.img))
                   /\ last.ret \in ImageDownloadFailedResults
          /\ last.ret \in UnknownCheckpointResults => ~Configured(last.arg)
          /\ last.ret \in NoImageAvailableResults
                => Configured(last.arg) /\ last.dls = 0
          /\ last.ret \in ImageDownloadFailedResults => last.dls = 1
    /\ UnknownCheckpointResults \cap NoImageAvailableResults = {}
    /\ UnknownCheckpointResults \cap ImageDownloadFailedResults = {}
    /\ NoImageAvailableResults \cap ImageDownloadFailedResults = {}
    /\ \A r \in UnknownCheckpointResults \cup NoImageAvailableResults
                    \cup ImageDownloadFailedResults : r[1] = None

\* a matched checkpoint whose image host answers with a non-2xx status
C5_Witness ==
    /\ last.op = "get_image_with_metadata"
    /\ Configured(last.arg)
    /\ last.up.kind = "ok"
    /\ CHECKPOINTS[last.arg] \in CameraIds(last.up.value)
    /\ last.img.kind = "http_error"
    /\ last.ret = ImageDownloadFailed("HTTPError")

(***************************************************************************)
(* C6: end to end.  Whenever the image download succeeds, with any body,   *)
(* get_image_with_metadata returns the downloaded bytes, the timestamp     *)
(* (the cache's last_updated("all_images") when there is one, else the     *)
(* record's Timestamp) and the checkpoint name.                            *)
(***************************************************************************)
C6_EndToEndSuccess ==
    (last.op \in ResolveOps /\ last.img.kind = "ok") =>
        last.ret =
            << Some(last.img.value),
               IF "all_images" \in DOMAIN last_updated
               THEN strftime(last_updated["all_images"])
               ELSE cache["checkpoint_images"][last.arg].Timestamp,
               <<last.arg>> >>

(***************************************************************************)
(* C7: propagation.  Whatever the endpoint and the image host answer, no   *)
(* call of get_image_with_metadata ends with an exception; it returns      *)
(* image bytes, or None with a message, and when a request failed or the   *)
(* camera was missing the result is one of the resolver's three errors.    *)
(***************************************************************************)
C7_NoUncaughtException ==
    last.op \in ResolveOps =>
        /\ last.raised = "none"
        /\ Len(last.ret) = 3
        /\ last.ret[1] = None => last.ret[3] = <<>>
        /\ (last.up.kind \in FailureKinds \/ last.img.kind \in FailureKinds
               \/ last.dls = 0)
              => last.ret \in UnknownCheckpointResults
                      \cup NoImageAvailableResults
                      \cup ImageDownloadFailedResults

\* the endpoint answers with the camera, then the image host answers non-2xx
C7_Witness ==
    /\ last.op = "get_image_with_metadata"
    /\ last.reqs = 1
    /\ last.up.kind = "ok"
    /\ last.dls = 1
    /\ last.img.kind = "http_error"
    /\ last.raised = "none"

(***************************************************************************)
(* C8: failure isolation.  When the request for the camera list fails      *)
(* (transport error or non-2xx), the error get_image_with_metadata returns *)
(* for a configured checkpoint is not NoImageAvailable.                    *)
(***************************************************************************)
C8_MetadataFailureDistinct ==
    (last.op \in ResolveOps /\ Configured(last.arg) /\ last.reqs = 1
        /\ last.up.kind \in FailureKinds)
        => last.ret # NoImageAvailable(last.arg)

(***************************************************************************)
(* C9: degraded mode.  A call of get_all_traffic_images that misses and    *)
(* whose request fails returns [], raises nothing and leaves no            *)
(* "all_images" entry; one whose request is answered stores the list under *)
(* "all_images" with the time of the call and returns that list.           *)
(***************************************************************************)
C9_DegradedMode ==
    (last.op = "get_all_traffic_images" /\ last.reqs = 1) =>
        /\ last.raised = "none"
        /\ last.up.kind \in FailureKinds
              => /\ last.ret = <<>>
                 /\ "all_images" \notin DOMAIN cache
                 /\ "all_images" \notin DOMAIN last_updated
        /\ last.up.kind = "ok"
              => /\ last.ret = last.up.value
                 /\ dict_get(cache, "all_images") = Some(last.ret)
                 /\ dict_get(last_updated, "all_images") = Some(last.at)

\* the entry had expired, the call dropped it, and the request then failed
C9_Witness ==
    /\ last.op = "get_all_traffic_images"
    /\ last.reqs = 1
    /\ last.up.kind = "http_error"
    /\ "all_images" \in DOMAIN last.pre
    /\ last.ret = <<>>
    /\ "all_images" \notin DOMAIN cache

(***************************************************************************)
(* C10: filtering.  On a miss, the mapping get_checkpoint_images computes  *)
(* has exactly the checkpoint names whose camera id occurs in the fetched  *)
(* records, each with one of the fetched records of that camera id; a      *)
(* checkpoint without a match is left out without an error; the mapping    *)
(* is stored under "checkpoint_images".                                    *)
(***************************************************************************)
C10_Filtering ==
    (last.op = "get_checkpoint_images" /\ last.fetched # None) =>
        LET fetched == last.fetched[1]
        IN  /\ last.raised = "none"
            /\ fetched = FromResponse(last.up)
            /\ DOMAIN last.ret =
                  {n \in DOMAIN CHECKPOINTS : CHECKPOINTS[n] \in CameraIds(fetched)}
            /\ \A n \in DOMAIN last.ret :
                  /\ last.ret[n].CameraID = CHECKPOINTS[n]
                  /\ \E i \in 1..Len(fetched) : fetched[i] = last.ret[n]
            /\ dict_get(cache, "checkpoint_images") = Some(last.ret)
            /\ dict_get(last_updated, "checkpoint_images") = Some(last.at)

\* two checkpoints matched, next to a camera that no checkpoint names
C10_Witness ==
    /\ last.op = "get_checkpoint_images"
    /\ last.fetched # None
    /\ Len(last.fetched[1]) = 3
    /\ "1001" \in CameraIds(last.fetched[1])
    /\ Cardinality(DOMAIN last.ret) = 2
    /\ DOMAIN last.ret # DOMAIN CHECKPOINTS

(***************************************************************************)
(* C11: expired entries are invisible to every reader.  For a key whose    *)
(* last set is ttl or more seconds old (and was not followed by            *)
(* invalidate or clear), neither get(k) nor get_last_updated(k) returns    *)
(* anything but None, whether or not the entry is still in the store.      *)
(***************************************************************************)
C11_ExpiredInvisible ==
    (/\ last.op \in {"get", "get_last_updated"}
     /\ shadow[last.key].st = "set"
     /\ last.at - shadow[last.key].t0 >= cache_duration)
        => last.ret = None

\* the part of C11 that is about get alone
C11_ExpiredInvisibleToGet ==
    (/\ last.op = "get"
     /\ shadow[last.key].st = "set"
     /\ last.at - shadow[last.key].t0 >= cache_duration)
        => last.ret = None

\* the key of the last call holds an entry that is inside its TTL window at time t
InWindow(k, t) ==
    /\ k \in Keys
    /\ shadow[k].st = "set"
    /\ t - shadow[k].t0 < cache_duration

\* a read inside the window returns what the last set stored
C12_ReadsReturnStored ==
    /\ (last.op = "get" /\ InWindow(last.key, last.at))
          => last.ret = Some(shadow[last.key].v)
    /\ (last.op = "get_last_updated" /\ InWindow(last.key, last.at))
          => last.ret = Some(shadow[last.key].t0)

\* inside the window the store still holds the value and the time of the set,
\* however many reads were made since
C12_StoredAtNeverReset ==
    \A k \in Keys :
        InWindow(k, now) =>
            /\ dict_get(cache, k) = Some(shadow[k].v)
            /\ dict_get(last_updated, k) = Some(shadow[k].t0)

\* a read inside the window changes neither dict
C12_ReadFrame ==
    (last'.op \in {"get", "get_last_updated"} /\ InWindow(last'.key, last'.at))
        => UNCHANGED <<cache, last_updated>>

(***************************************************************************)
(* C12: idempotence of reads.  Any number of get(k) and                    *)
(* get_last_updated(k) calls made inside the TTL window return the stored  *)
(* value / the stored time and leave both dicts unchanged; a read never    *)
(* resets the stored time, so reads never extend an entry's lifetime.      *)
(***************************************************************************)
C12_IdempotentReads ==
    [](C12_ReadsReturnStored /\ C12_StoredAtNeverReset) /\ [][C12_ReadFrame]_vars

\* a get in the last second of the window of an entry set at time 0: it
\* returns the value, and the stored time is still 0
C12_Witness ==
    /\ last.op = "get"
    /\ last.at = cache_duration - 1
    /\ shadow[last.key].st = "set"
    /\ shadow[last.key].t0 = 0
    /\ last.ret = Some(shadow[last.key].v)
    /\ get_last_updated(api_cache, last.key) = Some(0)

\* no call of a method of api_cache has ended in an exception
C13_NoOperationFails == \A c \in Callers : pc[c].raised = "none"

\* when no caller is inside a method, both dicts hold the same keys
C13_SameKeysAtRest ==
    (\A c \in Callers : pc[c].line = 0) => DOMAIN cache = DOMAIN last_updated

(***************************************************************************)
(* C13: concurrent cache use without corruption.  Under every interleaving *)
(* of get / set / invalidate / clear issued by several callers on the same *)
(* APICache no operation fails, and once all operations have completed     *)
(* the value dict and the timestamp dict hold the same set of keys.        *)
(***************************************************************************)
C13_ConcurrentUse == C13_NoOperationFails /\ C13_SameKeysAtRest

\* config.py:22-27, the checkpoints in the order they are written
ConfigurationOrder ==
    << "Second Link at Tuas", "Tuas Checkpoint",
       "Woodlands Causeway (Towards Johor)", "Woodlands Checkpoint (Towards BKE)" >>

Batches == {"refresh_all_checkpoints", "force_refresh_all"}

RECURSIVE Flatten(_)
Flatten(rows) == IF rows = <<>> THEN <<>> ELSE Head(rows) \o Flatten(Tail(rows))

\* the checkpoints a keyboard lists, in the order of its buttons (left to right,
\* top to bottom)
RECURSIVE ListedCheckpoints(_)
ListedCheckpoints(buttons) ==
    IF buttons = <<>> THEN <<>>
    ELSE (IF Head(buttons)[1] = "checkpoint:" THEN <<Head(buttons)[2]>> ELSE <<>>)
         \o ListedCheckpoints(Tail(buttons))

\* a batch has visited a prefix of the configuration order, each checkpoint once
C14_VisitedInOrder ==
    handler.name \in Batches =>
        /\ Len(handler.visited) <= Len(ConfigurationOrder)
        /\ handler.visited = SubSeq(ConfigurationOrder, 1, Len(handler.visited))
        /\ handler.running => handler.i = Len(handler.visited) + 1

\* a batch that has ended has visited every checkpoint, and the keyboard it
\* ends with lists every checkpoint in configuration order
C14_BatchComplete ==
    (handler.name \in Batches /\ ~handler.running) =>
        /\ handler.visited = ConfigurationOrder
        /\ ListedCheckpoints(Flatten(handler.sent[Len(handler.sent)].reply_markup))
              = ConfigurationOrder

\* a turn of the loop goes on to the next checkpoint, whatever the resolve returned
C14_TurnGoesOn ==
    (handler.running /\ handler'.visited # handler.visited) =>
        /\ handler'.running
        /\ handler'.i = handler.i + 1
        /\ handler'.visited = Append(handler.visited, ConfigurationOrder[handler.i])

(***************************************************************************)
(* C14: batch ordering and completeness.  The checkpoint keyboard and the  *)
(* refresh-all / force-refresh-all batches visit every configured          *)
(* checkpoint exactly once, in configuration order; a failed resolve for   *)
(* one checkpoint does not stop the batch.                                 *)
(***************************************************************************)
C14_BatchOrdering ==
    [](C14_VisitedInOrder /\ C14_BatchComplete) /\ [][C14_TurnGoesOn]_vars

\* a batch that has ended, in which the first checkpoint failed and a later
\* one was sent as a photo
C14_Witness ==
    /\ handler.name \in Batches
    /\ ~handler.running
    /\ handler.visited = ConfigurationOrder
    /\ handler.sent[2].text = "Could not load image"
    /\ handler.sent[2].about = ConfigurationOrder[1]
    /\ \E n \in 3..5 : handler.sent[n].via = "reply_photo"
    /\ Len(handler.sent) = 6

(***************************************************************************)
(* C15: no indefinite blocking.  Every call of get_all_traffic_images and  *)
(* get_image_with_metadata (with the image download inside it) eventually  *)
(* returns, also when a server never answers.                              *)
(***************************************************************************)
C15_EveryCallReturns == (pc["a"].line # 0) ~> (pc["a"].line = 0)

\* the part of C15 that does not depend on the servers: once an answer has
\* arrived, the call goes on
C15_ReturnsOnceAnswered ==
    /\ (pc["a"].line = 34) ~> (pc["a"].line \in {0, 127})
    /\ (pc["a"].line = 128) ~> (pc["a"].line = 0)

CheckpointHandlers ==
    {"checkpoint_detail", "refresh_checkpoint", "force_refresh_checkpoint",
     "refresh_all_checkpoints", "force_refresh_all", "status_command"}

\* the buttons a message carries
Buttons(message) == Flatten(message.reply_markup)

(***************************************************************************)
(* C16: no dead end.  Whenever a checkpoint handler has taken a failure    *)
(* path because lta_api returned an error or an empty result, by the end   *)
(* of the handler the user has been sent or shown a message that carries   *)
(* at least one inline button.                                             *)
(***************************************************************************)
C16_NoDeadEnd ==
    (handler.name \in CheckpointHandlers /\ ~handler.running /\ handler.failed) =>
        \E n \in 1..Len(handler.sent) : Len(Buttons(handler.sent[n])) >= 1

\* a force-refresh-all batch in which every checkpoint failed: four texts
\* without buttons, then the checkpoint keyboard
C16_Witness ==
    /\ handler.name = "force_refresh_all"
    /\ ~handler.running
    /\ handler.failed
    /\ \A n \in 2..5 : /\ handler.sent[n].text = "Could not load image"
                       /\ Buttons(handler.sent[n]) = <<>>
    /\ Len(Buttons(handler.sent[6])) >= 1

\* the last call was a resolve that returned an image
ResolveSucceeded ==
    /\ last.op \in ResolveOps
    /\ last.raised = "none"
    /\ last.ret[1] # None

\* the timestamp it returned is a time of the cache, not the record's Timestamp
ReportsCacheTimestamp == ResolveSucceeded /\ last.ret[2][1] = "T"

(***************************************************************************)
(* C17: the effective timestamp names the batch of the record.  Whenever   *)
(* resolve succeeds and reports the cache timestamp                        *)
(* get_last_updated("all_images"), that timestamp is the moment at which   *)
(* the batch containing the returned record was fetched and stored, never  *)
(* the store time of a different, later batch.                             *)
(***************************************************************************)
C17_TimestampNamesBatch ==
    ReportsCacheTimestamp =>
        /\ shadow["checkpoint_images"].st = "set"
        /\ last.ret[2] = strftime(shadow["checkpoint_images"].t0)

\* C17 for a resolve that itself filtered the mapping (a miss on
\* "checkpoint_images"), where both entries come from one batch
C17_WhenFilteredNow ==
    (ReportsCacheTimestamp /\ last.fetched # None) =>
        last.ret[2] = strftime(shadow["checkpoint_images"].t0)

\* the mapping of the last call came out of get_checkpoint_images
ReturnedMapping ==
    /\ last.raised = "none"
    /\ \/ last.op = "get_checkpoint_images"
       \/ last.op \in ResolveOps /\ Configured(last.arg)

(***************************************************************************)
(* C18: stale-free filtered reads.  A mapping returned by                  *)
(* get_checkpoint_images (and so the record resolve uses) was derived from *)
(* an upstream batch fetched less than ttl ago: the filtered entry never   *)
(* outlives the TTL window of the raw batch it was derived from.           *)
(***************************************************************************)
C18_StaleFreeFiltered ==
    (ReturnedMapping /\ shadow["checkpoint_images"].st = "set") =>
        last.at - shadow["checkpoint_images"].t0 < cache_duration

\* C18 for the raw list: get_all_traffic_images never returns a batch older than ttl
C18_StaleFreeRaw ==
    (last.op = "get_all_traffic_images" /\ Len(last.ret) > 0) =>
        /\ shadow["all_images"].st = "set"
        /\ last.at - shadow["all_images"].t0 < cache_duration

\* a resolve of a configured checkpoint whose metadata request failed
FailedOnMetadata ==
    /\ last.op = "get_image_with_metadata"
    /\ last.arg \in DOMAIN CHECKPOINTS
    /\ last.at = now
    /\ last.reqs = 1
    /\ last.up.kind # "ok"
    /\ last.raised = "none"

\* the next step is a resolve of the same checkpoint at the same time
ResolvedAgain ==
    /\ last'.op = "get_image_with_metadata"
    /\ last'.arg = last.arg
    /\ now' = now

\* the second answer of the endpoint has the checkpoint's camera, and the image
\* host serves its image
UpstreamRecovered ==
    /\ last'.up.kind = "ok"
    /\ CHECKPOINTS[last.arg] \in CameraIds(last'.up.value)
    /\ last'.img.kind = "ok"
    /\ Len(last'.img.value) > 0

(***************************************************************************)
(* C19: immediate retry after a metadata failure.  If a resolve of a       *)
(* configured checkpoint fails because the metadata request failed, a      *)
(* resolve of the same checkpoint that follows at once (same TTL window,   *)
(* no force_refresh between) issues a new metadata request, and returns    *)
(* the checkpoint's image if the upstream has recovered.                   *)
(***************************************************************************)
C19_ImmediateRetry ==
    [][(FailedOnMetadata /\ ResolvedAgain) =>
          /\ last'.reqs = 1
          /\ UpstreamRecovered => last'.ret[1] # None]_vars

\* what the code does: the empty mapping stored after the failure answers the
\* retry, with no request and no image, whatever the upstream would now say
C19_RetryAnsweredFromCache ==
    [][(FailedOnMetadata /\ ResolvedAgain) =>
          /\ last'.reqs = 0
          /\ last'.dls = 0
          /\ last'.ret[1] = None
          /\ dict_get(cache, "checkpoint_images") = Some(EmptyDict)]_vars

\* after force_refresh the retry does ask again
C19_RetryAfterForceRefresh ==
    [][(last.op = "force_refresh" /\ ResolvedAgain
            /\ last'.arg \in DOMAIN CHECKPOINTS) => last'.reqs = 1]_vars

\* the fetched record of camera id at position i is the first of that camera
IsFirstOf(fetched, i, id) ==
    /\ fetched[i].CameraID = id
    /\ \A j \in 1..(i - 1) : fetched[j].CameraID # id

\* the fetched record of camera id at position i is the last of that camera
IsLastOf(fetched, i, id) ==
    /\ fetched[i].CameraID = id
    /\ \A j \in (i + 1)..Len(fetched) : fetched[j].CameraID # id

(***************************************************************************)
(* C20: first match wins.  When the fetched records contain several        *)
(* records with the camera id of a checkpoint, get_checkpoint_images maps  *)
(* that checkpoint to the first such record in upstream order.             *)
(***************************************************************************)
C20_FirstMatchWins ==
    (last.op = "get_checkpoint_images" /\ last.fetched # None) =>
        \A n \in DOMAIN last.ret :
            \A i \in 1..Len(last.fetched[1]) :
                IsFirstOf(last.fetched[1], i, CHECKPOINTS[n]) =>
                    last.ret[n] = last.fetched[1][i]

\* what the code does: every match overwrites the one before, the last one stays
C20_LastMatchWins ==
    (last.op = "get_checkpoint_images" /\ last.fetched # None) =>
        \A n \in DOMAIN last.ret :
            \A i \in 1..Len(last.fetched[1]) :
                IsLastOf(last.fetched[1], i, CHECKPOINTS[n]) =>
                    last.ret[n] = last.fetched[1][i]

(***************************************************************************)
(* C28: store shape.  After any sequence of get / set / invalidate /       *)
(* clear / get_last_updated calls run one after the other on an APICache,  *)
(* the value dict and the timestamp dict have exactly the same keys.       *)
(***************************************************************************)
C28_StoreShape ==
    \A k \in Keys : (k \in DOMAIN cache) <=> (k \in DOMAIN last_updated)

\* one key was removed by a get that found it expired while the other stayed
C28_Witness ==
    /\ last.op = "get"
    /\ last.ret = None
    /\ shadow[last.key].st = "set"
    /\ last.key \notin DOMAIN last_updated
    /\ \E j \in Keys \ {last.key} : j \in DOMAIN cache /\ j \in DOMAIN last_updated

\* the store holds an entry of k that is ttl or more old
HoldsExpired(k) ==
    /\ k \in DOMAIN cache
    /\ k \in DOMAIN last_updated
    /\ now - last_updated[k] >= cache_duration

\* C22, of a get(k) step: what it removes and what it leaves
C22_GetStep ==
    (last'.op = "get" /\ now' = now) =>
        /\ HoldsExpired(last'.key) =>
              /\ last'.ret = None
              /\ last'.key \notin DOMAIN cache'
              /\ last'.key \notin DOMAIN last_updated'
        /\ ~HoldsExpired(last'.key) => UNCHANGED <<cache, last_updated>>
        /\ \A j \in Keys \ {last'.key} :
              /\ dict_get(cache', j) = dict_get(cache, j)
              /\ dict_get(last_updated', j) = dict_get(last_updated, j)

\* C22, of the get_last_updated(k) that follows a get(k) of an expired entry
C22_ThenLastUpdated ==
    (/\ last.op = "get"
     /\ shadow[last.key].st = "set"
     /\ last.at - shadow[last.key].t0 >= cache_duration
     /\ last'.op = "get_last_updated"
     /\ last'.key = last.key) => last'.ret = None

(***************************************************************************)
(* C22: lazy eviction.  A get(k) that finds an entry ttl or more old       *)
(* removes the value and the timestamp of k and returns None, so a         *)
(* get_last_updated(k) that follows returns None; a get(k) of a live or    *)
(* absent key removes nothing; no get changes a key other than k.          *)
(***************************************************************************)
C22_LazyEviction == [][C22_GetStep]_vars /\ [][C22_ThenLastUpdated]_vars

\* get_last_updated(k) answered None for a key that was set, never removed by
\* invalidate or clear, and is past its window; the other key is still stored
C22_Witness ==
    /\ last.op = "get_last_updated"
    /\ last.ret = None
    /\ shadow[last.key].st = "set"
    /\ last.at - shadow[last.key].t0 >= cache_duration
    /\ \E j \in Keys \ {last.key} : j \in DOMAIN cache

\* C26, of a resolve step: a name that is not configured
C26_UnknownStep ==
    (last'.op = "get_image_with_metadata" /\ ~Configured(last'.arg)
        /\ now' = now) =>
        /\ last'.ret = UnknownCheckpoint(last'.arg)
        /\ last'.raised = "none"
        /\ last'.reqs = 0
        /\ last'.dls = 0
        /\ UNCHANGED <<cache, last_updated>>

(***************************************************************************)
(* C26: an unknown checkpoint is rejected first and without effect.        *)
(* get_image_with_metadata(name) with a name that is not a key of          *)
(* CHECKPOINTS issues no metadata request and no image download and        *)
(* leaves every cache entry and timestamp as it was.                       *)
(***************************************************************************)
C26_UnknownRejectedFirst == [][C26_UnknownStep]_vars

\* an unknown name was rejected while the store held an expired raw list,
\* which a fetch would have evicted and replaced
C26_Witness ==
    /\ last.op = "get_image_with_metadata"
    /\ ~Configured(last.arg)
    /\ last.ret = UnknownCheckpoint(last.arg)
    /\ "all_images" \in DOMAIN cache
    /\ "all_images" \in DOMAIN last_updated
    /\ last.at - last_updated["all_images"] >= cache_duration

\* the mapping in the store has a record for the name
RecordFound(name) ==
    /\ "checkpoint_images" \in DOMAIN cache
    /\ name \in DOMAIN cache["checkpoint_images"]

(***************************************************************************)
(* C27: bounded upstream use.  One get_image_with_metadata call issues at  *)
(* most one metadata request and at most one image download, the download  *)
(* only when a record of the checkpoint was found; a failed request or     *)
(* download ends the call and is not tried again.                          *)
(***************************************************************************)
C27_BoundedUpstreamUse ==
    last.op \in ResolveOps =>
        /\ last.reqs \in {0, 1}
        /\ last.dls \in {0, 1}
        /\ last.dls = 1 => Configured(last.arg) /\ RecordFound(last.arg)
        /\ (last.reqs = 1 /\ last.up.kind = "ok" /\ last.dls = 1)
              => CHECKPOINTS[last.arg] \in CameraIds(last.up.value)
        /\ (last.reqs = 1 /\ last.up.kind \in FailureKinds) => last.dls = 0
        /\ last.img.kind \in FailureKinds => last.dls = 1 /\ last.ret[1] = None

\* a call that asked the endpoint, found its record and met a transport failure
\* of the image host: one request, one download, no image
C27_Witness ==
    /\ last.op = "get_image_with_metadata"
    /\ last.reqs = 1
    /\ last.up.kind = "ok"
    /\ last.dls = 1
    /\ last.img.kind = "connection_error"
    /\ last.ret[1] = None

\* a call whose metadata request failed: one request, no download
C27_NoRetryOfMetadata ==
    /\ last.op = "get_image_with_metadata"
    /\ last.reqs = 1
    /\ last.up.kind = "connection_error"
    /\ last.dls = 0

\* the filtered mapping is in the store and inside its TTL window
LiveMapping ==
    /\ "checkpoint_images" \in DOMAIN cache
    /\ "checkpoint_images" \in DOMAIN last_updated
    /\ now - last_updated["checkpoint_images"] < cache_duration

\* the step is a get_image_with_metadata call of a handler: the one call of
\* checkpoint_detail, or one turn of a batch
ResolveStep ==
    \/ last'.op = "checkpoint_detail" /\ handler'.name = "checkpoint_detail"
          /\ now' = now
    \/ handler.running /\ Len(handler'.visited) > Len(handler.visited)

\* C21, of steps: a resolve that finds the mapping live asks the endpoint nothing
C21_LiveEntryStep ==
    (ResolveStep /\ LiveMapping /\ Configured(last'.arg)) => last'.reqs = 0

\* C21, of states: a batch that is less than ttl old has asked at most once
C21_BatchWithinWindow ==
    (handler.name \in Batches /\ now - handler.began < cache_duration)
        => handler.reqs <= 1

(***************************************************************************)
(* C21: one upstream fetch shared per window.  While the                   *)
(* "checkpoint_images" entry is live, a resolve of any configured          *)
(* checkpoint issues no metadata request; and a refresh-all batch that     *)
(* completes within one TTL window issues at most one metadata request.    *)
(***************************************************************************)
C21_OneFetchShared == [](C21_BatchWithinWindow) /\ [][C21_LiveEntryStep]_vars

\* a refresh-all batch over all checkpoints that began on a live mapping, saw
\* it expire on the way, asked the endpoint once and ended inside one window
C21_Witness ==
    /\ handler.name = "refresh_all_checkpoints"
    /\ ~handler.running
    /\ Len(handler.visited) = Len(CHECKPOINT_NAMES)
    /\ handler.began > 0
    /\ now > handler.began
    /\ now - handler.began < cache_duration
    /\ handler.reqs = 1
    /\ last.reqs = 0

\* a batch that took a whole TTL window or more can ask twice
C21_BatchAcrossWindows ==
    handler.name \in Batches => handler.reqs <= 1

\* the entry of k is in the store and inside its TTL window
LiveKey(k) ==
    /\ k \in DOMAIN cache
    /\ k \in DOMAIN last_updated
    /\ now - last_updated[k] < cache_duration

\* C25, of the store: the mapping is the filter of the raw list
C25_MappingIsFilterOfRaw ==
    (LiveKey("all_images") /\ LiveKey("checkpoint_images")) =>
        cache["checkpoint_images"] = filter_images(cache["all_images"], 1, EmptyDict)

\* C25, of status: every configured camera in the list it reports is among
\* the checkpoints it reports as found
C25_StatusAgrees ==
    (last.op = "status_command" /\ last.raised = "none" /\ Len(last.ret) = 2) =>
        \A n \in DOMAIN CHECKPOINTS :
            CHECKPOINTS[n] \in CameraIds(last.ret[1]) => n \in DOMAIN last.ret[2]

(***************************************************************************)
(* C25: consistency of the two cache keys.  In every reachable state in    *)
(* which both "all_images" and "checkpoint_images" are live, the cached    *)
(* mapping is the filter of the cached raw list; so status never reports   *)
(* a raw list with a configured camera id together with a set of found     *)
(* checkpoints that omits that checkpoint.                                 *)
(***************************************************************************)
C25_KeysConsistent == C25_MappingIsFilterOfRaw /\ C25_StatusAgrees

\* what does hold: right after a call that filtered, the two entries agree
C25_ConsistentWhenFilteredNow ==
    (last.fetched # None /\ LiveKey("all_images") /\ LiveKey("checkpoint_images"))
        => cache["checkpoint_images"] = filter_images(cache["all_images"], 1, EmptyDict)

(***************************************************************************)
(* Two callers inside get_all_traffic_images at the same time, and         *)
(* force_refresh() beside them.  A caller looks into the cache (line 22),  *)
(* sends its request and waits (line 33), and stores and returns the       *)
(* answer when it has come (lines 34-47); another caller can run between   *)
(* any two of these.  The methods of api_cache are taken as one step each  *)
(* here; their own interleavings are ThreadSpec's.  In pc, value is the    *)
(* answer the caller's request got, and key notes what happened while the  *)
(* request was under way: "racing" when another caller's request was under *)
(* way too, "before_refresh" when force_refresh() ran meanwhile.           *)
(***************************************************************************)
RaceAnswers == Shots("4703") \cup {"connection_error"}

\* the endpoint's answer named v: one record of camera 4703, or a failure
AnswerOf(v) ==
    IF v \in Shots("4703")
    THEN [kind |-> "ok", value |-> <<CameraRecord("4703", v)>>]
    ELSE [kind |-> v, value |-> <<>>]

InFlight(c) == pc[c].line \in {33, 34}

Returned(op, arg, r, response) ==
    [op |-> op, arg |-> arg, at |-> now, ret |-> r.ret, raised |-> r.raised,
     reqs |-> r.reqs, dls |-> 0, up |-> response, img |-> NotRequested,
     fetched |-> None, pre |-> last_updated]

\* lta_api.py:22-25: the look into the cache; a hit returns, a miss goes on to
\* the request of line 33
RaceCall(c) ==
    /\ pc[c].line = 0
    /\ \E cached \in {get(api_cache, "all_images", now)} :
          /\ cache' = cached.self.cache
          /\ last_updated' = cached.self.last_updated
          /\ IF cached.ret # None
             THEN /\ pc' = [pc EXCEPT ![c] = Idle]
                  /\ last' = Returned("get_all_traffic_images",
                                      shadow["all_images"].v,
                                      [ret |-> cached.ret[1], raised |-> "none",
                                       reqs |-> 0], NotRequested)
             ELSE /\ pc' = [d \in Callers |->
                             IF d = c
                             THEN [op |-> "get_all_traffic_images",
                                   key |-> IF \E e \in Callers \ {c} : InFlight(e)
                                           THEN "racing" ELSE "",
                                   value |-> "", line |-> 33, raised |-> "none"]
                             ELSE IF InFlight(d) /\ pc[d].key = ""
                             THEN [pc[d] EXCEPT !.key = "racing"]
                             ELSE pc[d]]
                  /\ UNCHANGED last
    /\ UNCHANGED <<now, shadow, handler>>

\* lta_api.py:33: the answer to the caller's request arrives
RaceAnswer(c) ==
    /\ pc[c].line = 33
    /\ \E v \in RaceAnswers : pc' = [pc EXCEPT ![c].value = v, ![c].line = 34]
    /\ UNCHANGED <<cache, last_updated, now, last, shadow, handler>>

\* lta_api.py:34-50: the rest of the call, with the answer it got
RaceStore(c) ==
    /\ pc[c].line = 34
    /\ \E response \in {AnswerOf(pc[c].value)} :
         \E r \in {IF request_raised(response) = "none"
                   THEN traffic_images_received(api_cache, now, response.value)
                   ELSE traffic_images_failed(api_cache, now)} :
            /\ cache' = r.self.cache
            /\ last_updated' = r.self.last_updated
            /\ last' = Returned("get_all_traffic_images", pc[c].key, r, response)
            /\ shadow' = IF "all_images" \in DOMAIN r.self.cache
                            /\ request_raised(response) = "none"
                         THEN [shadow EXCEPT !["all_images"] =
                                  [st |-> "set", v |-> pc[c].key, t0 |-> now]]
                         ELSE shadow
    /\ pc' = [pc EXCEPT ![c].line = 0]
    /\ UNCHANGED <<now, handler>>

\* lta_api.force_refresh(), by a caller that is in no call
RaceForceRefresh ==
    /\ \E c \in Callers : pc[c].line = 0
    /\ \E self \in {force_refresh(api_cache)} :
          /\ cache' = self.cache
          /\ last_updated' = self.last_updated
          /\ last' = Returned("force_refresh", "",
                              [ret |-> None, raised |-> "none", reqs |-> 0],
                              NotRequested)
    /\ shadow' = [k \in Keys |-> Removed(shadow[k], "cleared")]
    /\ pc' = [d \in Callers |->
                IF InFlight(d) THEN [pc[d] EXCEPT !.key = "before_refresh"]
                ELSE Idle]
    /\ UNCHANGED <<now, handler>>

RaceTick == Tick

RaceNext ==
    \/ \E c \in Callers : RaceCall(c)
    \/ \E c \in Callers : RaceAnswer(c)
    \/ \E c \in Callers : RaceStore(c)
    \/ RaceForceRefresh
    \/ RaceTick

RaceSpec == Init /\ [][RaceNext]_vars

\* the raw list in the store came from a request sent before the last force_refresh
HoldsPreRefreshData ==
    /\ "all_images" \in DOMAIN cache
    /\ shadow["all_images"].st = "set"
    /\ shadow["all_images"].v = "before_refresh"

(***************************************************************************)
(* C23: force_refresh against a fetch in flight.  With callers running     *)
(* at the same time, a fetch whose request was sent before a               *)
(* force_refresh() does not put its answer into the cache after that       *)
(* force_refresh() has returned, and no later call is served that answer   *)
(* from the cache.                                                         *)
(***************************************************************************)
C23_NoPreRefreshData ==
    /\ ~HoldsPreRefreshData
    /\ (last.op = "get_all_traffic_images" /\ last.reqs = 0)
          => last.arg # "before_refresh"

\* both callers have returned from calls whose requests were under way together
BothRaced == \A c \in Callers : pc[c].line = 0 /\ pc[c].key = "racing"

\* the callers whose request was answered with a list
Answered == {c \in Callers : pc[c].value \in Shots("4703")}

====
